---- MODULE Spec2Model ----
(***************************************************************************)
(* agent-skills-updater: the install / backup / rollback subsystem.        *)
(*                                                                         *)
(* The file system is modelled by value.  A directory subtree is a         *)
(* function from relative file paths (sequences of path segments) to file  *)
(* contents; a target root is a flag (does the root directory exist) and a *)
(* function from the names of the skill directories it holds to their      *)
(* subtrees, with a flag for a root that refuses writes; the backup root   *)
(* is a flag and a function from snapshot                                  *)
(* directory names (timestamp labels) to snapshots.  An empty directory    *)
(* inside a fetched repository is an entry whose content is DirMark.       *)
(***************************************************************************)
EXTENDS Integers, Sequences, FiniteSets, TLC

VARIABLES
    config,      \* AppConfig: skill_target_paths and keep_backups
    now,         \* the wall clock, in microsecond ticks (datetime.now)
    targets,     \* the target roots on disk, by index in skill_target_paths
    lockdisk,    \* the lockfile file .skill-lock.json on disk
    locktmp,     \* the temporary file of save_lockfile, beside the lockfile
    backups,     \* the backup root directory on disk
    pc,          \* position of the running update command (_run_update)
    run,         \* locals of the running update command
    last,        \* the last completed operation, its arguments and result
    pre,         \* the disk state the last update run started from (history)
    shot,        \* what the last successful create_backup captured (history)
    ops,         \* number of commands and edits so far
    resolved     \* a call of a _find_skill_dir_* function and its result

vars == <<config, now, targets, lockdisk, locktmp, backups, pc, run, last, pre, shot, ops,
          resolved>>

----------------------------------------------------------------------------
(* Bounds of the model *)

MaxClock == 2
MaxOps == 2
KeepBackups == 2

----------------------------------------------------------------------------
(* Values *)

Skills == {"a", "b"}

Empty == <<>>

\* Subtrees used as inputs: what a user may put into a skill directory.
DirOld == (<<"SKILL.md">> :> "v1") @@ (<<"docs", "notes.md">> :> "v1")
DirEdited == (<<"SKILL.md">> :> "v2")

UserDirs == {DirEdited}

Restrict(f, S) == [x \in S |-> f[x]]

\* The root directories the configuration may name.
PathAB == <<"/", "h", "/", "a", "/", "b">>
PathAC == <<"/", "h", "/", "a", "/", "c">>
PathA_B == <<"/", "h", "/", "a", "_", "b">>

RootIdx == {1, 2}

----------------------------------------------------------------------------
(* JSON files.  A file is a record: kind says whether it is missing, holds  *)
(* bytes that are no UTF-8 text, holds text that is no JSON, or holds a     *)
(* JSON value; data is that value.  A JSON value carries its type, and a    *)
(* scalar carries in v the text str() makes of it.  In memory a lockfile    *)
(* entry is a function from field names to Python strings.                  *)

JString(s) == [json |-> "string", v |-> s]
JNumber(r) == [json |-> "number", v |-> r]
JNull == [json |-> "null", v |-> "None"]
JArray(r) == [json |-> "array", v |-> r]
JObject(f) == [json |-> "object", fields |-> f]

MissingFile == [kind |-> "missing", data |-> JNull]
UndecodableFile == [kind |-> "undecodable", data |-> JNull]
CorruptFile == [kind |-> "corrupt", data |-> JNull]
JsonFile(value) == [kind |-> "json", data |-> value]

\* str(v) for a value v that json.loads returned
Str(value) == value.v

\* json.dumps of Lockfile.entries: every field value is a Python string
DumpEntries(entries) ==
    JObject([n \in DOMAIN entries |->
                JObject([k \in DOMAIN entries[n] |-> JString(entries[n][k])])])

----------------------------------------------------------------------------
(* backup.py *)

\* str(target_path).replace("\\", "_").replace("/", "_").replace(":", "")
RECURSIVE target_label(_)
target_label(path) ==
    IF path = <<>> THEN <<>>
    ELSE LET c == Head(path)
             rest == target_label(Tail(path))
         IN  IF c = "\\" \/ c = "/" THEN <<"_">> \o rest
             ELSE IF c = ":" THEN rest
             ELSE <<c>> \o rest

\* datetime.now(timezone.utc).strftime("%Y%m%dT%H%M%S_%fZ"): a fixed-width
\* label, so the lexicographic order of labels is the order of the ticks.
_timestamp_label(t) == t

\* datetime.now(UTC).isoformat(timespec="seconds"): two ticks to the second.
IsoSeconds(t) == t \div 2

\* shutil.copytree(src, dst, dirs_exist_ok=True) onto an existing dst: the
\* files of src overwrite, the other files of dst stay.
MergeDir(old, new) ==
    [f \in DOMAIN old \cup DOMAIN new |->
        IF f \in DOMAIN new THEN new[f] ELSE old[f]]

\* shutil.copytree(skill_dir, skill_dest, dirs_exist_ok=True)
CopyTreeInto(tree, name, dir) ==
    [s \in DOMAIN tree \cup {name} |->
        IF s = name
        THEN IF name \in DOMAIN tree THEN MergeDir(tree[name], dir) ELSE dir
        ELSE tree[s]]

\* if dest.exists(): shutil.rmtree(dest); shutil.copytree(src, dest)
ReplaceTree(tree, name, dir) ==
    [s \in DOMAIN tree \cup {name} |-> IF s = name THEN dir ELSE tree[s]]

RECURSIVE CopyAll(_, _, _)
CopyAll(tree, src, names) ==
    IF names = {} THEN tree
    ELSE LET s == CHOOSE x \in names : TRUE
         IN  CopyAll(CopyTreeInto(tree, s, src[s]), src, names \ {s})

\* One pass of the loop over config.skill_target_paths in create_backup.
BackupTarget(trees, tg, paths, entries, i) ==
    IF ~tg[i].exists THEN trees
    ELSE LET lab == target_label(paths[i])
             names == DOMAIN entries \cap DOMAIN tg[i].skills
             oldT == IF lab \in DOMAIN trees THEN trees[lab] ELSE Empty
         IN  IF names = {} THEN trees
             ELSE [l \in DOMAIN trees \cup {lab} |->
                     IF l = lab THEN CopyAll(oldT, tg[i].skills, names)
                     ELSE trees[l]]

\* backed_up_skills, as the set of its elements
backed_up_skills(tg, entries) ==
    {s \in DOMAIN entries : \E i \in RootIdx : tg[i].exists /\ s \in DOMAIN tg[i].skills}

\* json.dumps(lockfile.to_dict()) written to a file
LockfileToFile(entries) ==
    JsonFile(JObject(("version" :> JNumber("1")) @@ ("skills" :> DumpEntries(entries))))

\* The backups kept by _enforce_retention: backups[:keep_backups] of the
\* directory names sorted in descending order.
Kept(labels, keep) ==
    {l \in labels : Cardinality({m \in labels : m > l}) < keep}

_enforce_retention(bk, keep) ==
    IF ~bk.exists THEN bk
    ELSE [bk EXCEPT !.snaps = Restrict(bk.snaps, Kept(DOMAIN bk.snaps, keep))]

NoSnapshot == [trees |-> Empty, lockfile |-> MissingFile,
               meta |-> [kind |-> "missing", timestamp |-> 0, skills |-> {}]]

\* Mutant: an empty lockfile is backed up like any other.
create_backup_of_nothing(bk, tg, cfg, entries, t) ==
    LET ts == _timestamp_label(t)
        old == IF ts \in DOMAIN bk.snaps THEN bk.snaps[ts] ELSE NoSnapshot
        t1 == BackupTarget(old.trees, tg, cfg.paths, entries, 1)
        t2 == BackupTarget(t1, tg, cfg.paths, entries, 2)
        snap == [trees |-> t2,
                 lockfile |-> LockfileToFile(entries),
                 meta |-> [kind |-> "json", timestamp |-> ts, skills |-> backed_up_skills(tg, entries)]]
        written == [exists |-> TRUE,
                    snaps |-> [l \in DOMAIN bk.snaps \cup {ts} |->
                                  IF l = ts THEN snap ELSE bk.snaps[l]]]
    IN  _enforce_retention(written, cfg.keep)

\* create_backup(config, lockfile) at clock value t: the backup root after it.
create_backup(bk, tg, cfg, entries, t) ==
    IF DOMAIN entries = {} THEN bk
    ELSE LET ts == _timestamp_label(t)
             old == IF ts \in DOMAIN bk.snaps THEN bk.snaps[ts] ELSE NoSnapshot
             t1 == BackupTarget(old.trees, tg, cfg.paths, entries, 1)
             t2 == BackupTarget(t1, tg, cfg.paths, entries, 2)
             snap == [trees |-> t2,
                      lockfile |-> LockfileToFile(entries),
                      meta |-> [kind |-> "json", timestamp |-> ts, skills |-> backed_up_skills(tg, entries)]]
             written == [exists |-> TRUE,
                         snaps |-> [l \in DOMAIN bk.snaps \cup {ts} |->
                                       IF l = ts THEN snap ELSE bk.snaps[l]]]
         IN  _enforce_retention(written, cfg.keep)

\* The BackupInfo create_backup returns; "none" for None.
CreateBackupResult(tg, entries, t) ==
    IF DOMAIN entries = {} THEN [kind |-> "none", timestamp |-> 0, skills |-> {}]
    ELSE [kind |-> "info", timestamp |-> _timestamp_label(t),
          skills |-> backed_up_skills(tg, entries)]

\* Mutant: the directory names are sorted in ascending order.
RECURSIVE SortAsc(_)
SortAsc(labels) ==
    IF labels = {} THEN <<>>
    ELSE LET m == CHOOSE x \in labels : \A y \in labels : x <= y
         IN  <<m>> \o SortAsc(labels \ {m})

\* sorted([d for d in root.iterdir() if d.is_dir()], key=name, reverse=True)
RECURSIVE SortDesc(_)
SortDesc(labels) ==
    IF labels = {} THEN <<>>
    ELSE LET m == CHOOSE x \in labels : \A y \in labels : y <= x
         IN  <<m>> \o SortDesc(labels \ {m})

\* backup-meta.json of one snapshot directory, by meta.kind: "json" is the
\* object create_backup writes; "missing" no such file; "corrupt" text that
\* is no JSON; "empty_object" the JSON object {}; "array" JSON that is no
\* object; "skills_null" an object whose "skills" is null; "undecodable"
\* bytes that are no UTF-8.
\* The try block of list_backups catches OSError and json.JSONDecodeError:
\* meta.get on a list raises AttributeError, len(None) TypeError, and
\* read_text(encoding="utf-8") UnicodeDecodeError, and none of them is caught.
MetaRaises(meta) == meta.kind \in {"array", "skills_null", "undecodable"}

\* list_backups(config) raises instead of returning.
list_backups_raises(bk) ==
    bk.exists /\ \E l \in DOMAIN bk.snaps : MetaRaises(bk.snaps[l].meta)

\* The BackupInfo list_backups builds for one snapshot directory: from
\* backup-meta.json if it is a file that parses, else from the directory
\* name; the defaults of meta.get give the same for the object {}.
BackupInfoOf(name, snap) ==
    IF snap.meta.kind = "json"
    THEN [path |-> name, timestamp |-> snap.meta.timestamp,
          skill_count |-> Cardinality(snap.meta.skills), skills |-> snap.meta.skills]
    ELSE [path |-> name, timestamp |-> name, skill_count |-> 0, skills |-> {}]

RECURSIVE BackupInfos(_, _)
BackupInfos(bk, dirs) ==
    IF dirs = <<>> THEN <<>>
    ELSE <<BackupInfoOf(Head(dirs), bk.snaps[Head(dirs)])>> \o BackupInfos(bk, Tail(dirs))

\* list_backups(config): one BackupInfo per snapshot directory, newest first.
list_backups(bk) ==
    IF ~bk.exists THEN <<>> ELSE BackupInfos(bk, SortDesc(DOMAIN bk.snaps))


NoSkill == ""

\* Mutant: the skill name is ignored.
RestoreNamesAll(tree, skill_name) == DOMAIN tree

\* The skills restore_backup takes from the directory of one target root in
\* the snapshot: the named one if it was captured, or all of them.
RestoreNames(tree, skill_name) ==
    IF skill_name # NoSkill THEN {skill_name} \cap DOMAIN tree ELSE DOMAIN tree

RECURSIVE ReplaceAll(_, _, _)
ReplaceAll(tree, src, names) ==
    IF names = {} THEN tree
    ELSE LET s == CHOOSE x \in names : TRUE
         IN  ReplaceAll(ReplaceTree(tree, s, src[s]), src, names \ {s})

\* Mutant: the pass empties the target root before it copies.
RestoreTargetWipes(tg, snap, paths, skill_name, dry_run, i) ==
    LET lab == target_label(paths[i])
    IN  IF lab \notin DOMAIN snap.trees \/ dry_run THEN tg
        ELSE LET names == RestoreNames(snap.trees[lab], skill_name)
             IN  IF names = {} THEN tg
                 ELSE [tg EXCEPT ![i].exists = TRUE,
                                 ![i].skills = Restrict(snap.trees[lab], names)]

\* One pass of the loop over config.skill_target_paths in restore_backup.
RestoreTarget(tg, snap, paths, skill_name, dry_run, i) ==
    LET lab == target_label(paths[i])
    IN  IF lab \notin DOMAIN snap.trees \/ dry_run THEN tg
        ELSE LET names == RestoreNames(snap.trees[lab], skill_name)
             IN  IF names = {} THEN tg
                 ELSE [tg EXCEPT ![i].exists = TRUE,
                                 ![i].skills = ReplaceAll(tg[i].skills, snap.trees[lab], names)]

\* A pass of that loop raises: rmtree of the destination, or copytree into
\* the root, is refused; restore_backup has no try around them.
RestoreTargetRaises(tg, snap, paths, skill_name, dry_run, i) ==
    LET lab == target_label(paths[i])
    IN  /\ lab \in DOMAIN snap.trees
        /\ ~dry_run
        /\ RestoreNames(snap.trees[lab], skill_name) # {}
        /\ tg[i].denied

restored_any(snap, paths, skill_name) ==
    \E i \in RootIdx :
        LET lab == target_label(paths[i])
        IN  lab \in DOMAIN snap.trees /\ RestoreNames(snap.trees[lab], skill_name) # {}

\* Mutant: the lockfile snapshot is never copied back.
restore_backup_without_lockfile(bk, tg, lk, cfg, skill_name, dry_run) ==
    LET listed == list_backups(bk)
    IN  IF listed = <<>> THEN [targets |-> tg, lockdisk |-> lk, ret |-> FALSE]
        ELSE LET snap == bk.snaps[listed[1].path]
                 t1 == RestoreTarget(tg, snap, cfg.paths, skill_name, dry_run, 1)
                 t2 == RestoreTarget(t1, snap, cfg.paths, skill_name, dry_run, 2)
             IN  [targets |-> t2, lockdisk |-> lk,
                  ret |-> restored_any(snap, cfg.paths, skill_name)]

\* Mutant: no snapshot is reported as success.
restore_backup_never_fails(bk, tg, lk, cfg, skill_name, dry_run) ==
    LET listed == list_backups(bk)
    IN  IF listed = <<>> THEN [targets |-> tg, lockdisk |-> lk, ret |-> TRUE]
        ELSE LET snap == bk.snaps[listed[1].path]
                 t1 == RestoreTarget(tg, snap, cfg.paths, skill_name, dry_run, 1)
                 t2 == RestoreTarget(t1, snap, cfg.paths, skill_name, dry_run, 2)
             IN  [targets |-> t2,
                  lockdisk |-> IF skill_name = NoSkill /\ ~dry_run
                                  /\ snap.lockfile.kind # "missing"
                               THEN snap.lockfile ELSE lk,
                  ret |-> restored_any(snap, cfg.paths, skill_name)]

\* Mutant: the lockfile snapshot is copied back also when one skill is restored.
restore_backup_lockfile_always(bk, tg, lk, cfg, skill_name, dry_run) ==
    LET listed == list_backups(bk)
    IN  IF listed = <<>> THEN [targets |-> tg, lockdisk |-> lk, ret |-> FALSE]
        ELSE LET snap == bk.snaps[listed[1].path]
                 t1 == RestoreTarget(tg, snap, cfg.paths, skill_name, dry_run, 1)
                 t2 == RestoreTarget(t1, snap, cfg.paths, skill_name, dry_run, 2)
             IN  [targets |-> t2,
                  lockdisk |-> IF ~dry_run /\ snap.lockfile.kind # "missing"
                               THEN snap.lockfile ELSE lk,
                  ret |-> restored_any(snap, cfg.paths, skill_name)]

\* restore_backup(config, ctx, skill_name): the disk after it and its result.
restore_backup(bk, tg, lk, cfg, skill_name, dry_run) ==
    LET listed == list_backups(bk)
    IN  IF listed = <<>> THEN [targets |-> tg, lockdisk |-> lk, ret |-> FALSE]
        ELSE LET snap == bk.snaps[listed[1].path]
                 t1 == RestoreTarget(tg, snap, cfg.paths, skill_name, dry_run, 1)
                 t2 == RestoreTarget(t1, snap, cfg.paths, skill_name, dry_run, 2)
             IN  [targets |-> t2,
                  lockdisk |-> IF skill_name = NoSkill /\ ~dry_run
                                  /\ snap.lockfile.kind # "missing"
                               THEN snap.lockfile ELSE lk,
                  ret |-> restored_any(snap, cfg.paths, skill_name)]

\* restore_backup raises instead of returning: list_backups does, or a copy
\* into a target root is refused.
restore_backup_raises(bk, tg, cfg, skill_name, dry_run) ==
    \/ list_backups_raises(bk)
    \/ /\ list_backups(bk) # <<>>
       /\ LET snap == bk.snaps[list_backups(bk)[1].path]
          IN  \/ RestoreTargetRaises(tg, snap, cfg.paths, skill_name, dry_run, 1)
              \/ RestoreTargetRaises(tg, snap, cfg.paths, skill_name, dry_run, 2)

\* The target roots as restore_backup leaves them when it raises: the roots
\* before the refused one are restored already.
restore_backup_crash(bk, tg, cfg, skill_name, dry_run) ==
    IF list_backups_raises(bk) THEN tg
    ELSE LET snap == bk.snaps[list_backups(bk)[1].path]
         IN  IF RestoreTargetRaises(tg, snap, cfg.paths, skill_name, dry_run, 1) THEN tg
             ELSE RestoreTarget(tg, snap, cfg.paths, skill_name, dry_run, 1)

----------------------------------------------------------------------------
(* lockfile.py *)

\* load_lockfile(config) on the lockfile file doc: whether it raises, and
\* the entries of the Lockfile it returns.
LoadOutcome(doc) ==
    LET none == [raised |-> FALSE, entries |-> Empty]
    IN  IF doc.kind = "missing" THEN none
        ELSE IF doc.kind = "undecodable" THEN [raised |-> TRUE, entries |-> Empty]
        ELSE IF doc.kind = "corrupt" THEN none
        ELSE IF doc.data.json # "object" THEN none
        ELSE LET data == doc.data
                 entries == IF "skills" \in DOMAIN data.fields
                            THEN data.fields["skills"] ELSE data
             IN  IF entries.json # "object" THEN none
                 ELSE LET kept == {n \in DOMAIN entries.fields :
                                      entries.fields[n].json = "object"}
                      IN  [raised |-> FALSE,
                           entries |-> [n \in kept |->
                               [k \in DOMAIN entries.fields[n].fields |->
                                   Str(entries.fields[n].fields[k])]]]

load_lockfile(doc) == LoadOutcome(doc).entries

\* Mutant: the entry is always written as for a first install.
update_entry_as_new(entries, skill, t) ==
    LET stamp == IsoSeconds(t)
        fresh == [source |-> skill.source, sourceUrl |-> skill.source_url,
                  skillPath |-> skill.skill_path,
                  installedAt |-> stamp, updatedAt |-> stamp]
    IN  [n \in DOMAIN entries \cup {skill.name} |->
            IF n = skill.name THEN fresh ELSE entries[n]]

\* Mutant: an existing entry gets a new installedAt and keeps its updatedAt.
update_entry_keeps_updated_at(entries, skill, t) ==
    LET stamp == IsoSeconds(t)
        fresh == [source |-> skill.source, sourceUrl |-> skill.source_url,
                  skillPath |-> skill.skill_path,
                  installedAt |-> stamp, updatedAt |-> stamp]
        entry == IF skill.name \in DOMAIN entries
                    /\ "updatedAt" \in DOMAIN entries[skill.name]
                 THEN [fresh EXCEPT !.updatedAt = entries[skill.name].updatedAt]
                 ELSE fresh
    IN  [n \in DOMAIN entries \cup {skill.name} |->
            IF n = skill.name THEN entry ELSE entries[n]]

\* Lockfile.update_entry(skill) at clock value t
update_entry(entries, skill, t) ==
    LET stamp == IsoSeconds(t)
        fresh == [source |-> skill.source, sourceUrl |-> skill.source_url,
                  skillPath |-> skill.skill_path,
                  installedAt |-> stamp, updatedAt |-> stamp]
        entry == IF skill.name \in DOMAIN entries
                    /\ "installedAt" \in DOMAIN entries[skill.name]
                 THEN [fresh EXCEPT !.installedAt = entries[skill.name].installedAt]
                 ELSE fresh
    IN  [n \in DOMAIN entries \cup {skill.name} |->
            IF n = skill.name THEN entry ELSE entries[n]]

RECURSIVE UpdateEntries(_, _, _)
UpdateEntries(entries, installed, t) ==
    IF installed = <<>> THEN entries
    ELSE UpdateEntries(update_entry(entries, Head(installed), t), Tail(installed), t)

\* save_lockfile(config, lockfile): the lockfile file after it.
save_lockfile(entries) == LockfileToFile(entries)

----------------------------------------------------------------------------
(* installer.py *)

IsPrefix(p, f) == Len(f) >= Len(p) /\ SubSeq(f, 1, Len(p)) = p

\* The content that marks an entry of a fetched repository as a directory
\* (one that may hold nothing).
DirMark == "<dir>"

\* Path.is_dir() and Path.is_file() inside a fetched repository; the
\* repository root <<>> is a directory.
IsDir(files, p) ==
    \/ p = <<>>
    \/ p \in DOMAIN files /\ files[p] = DirMark
    \/ \E f \in DOMAIN files : Len(f) > Len(p) /\ IsPrefix(p, f)
IsFile(files, p) == p \in DOMAIN files /\ files[p] # DirMark

\* repo_path.iterdir(): the names of the entries of the repository root
IterDir(files) == {f[1] : f \in {g \in DOMAIN files : g # <<>>}}

\* The subtree below directory p, by paths relative to p.
Subtree(files, p) ==
    LET under == {f \in DOMAIN files : Len(f) > Len(p) /\ IsPrefix(p, f)}
    IN  [g \in {SubSeq(f, Len(p) + 1, Len(f)) : f \in under} |-> files[p \o g]]

NotFound == [found |-> FALSE, path |-> <<>>]
Found(p) == [found |-> TRUE, path |-> p]

_find_skill_dir_standard(files, skill_name) ==
    IF IsDir(files, <<"skills", skill_name>>) THEN Found(<<"skills", skill_name>>)
    ELSE IF IsDir(files, <<"src", "skills", skill_name>>)
         THEN Found(<<"src", "skills", skill_name>>)
    ELSE NotFound

_find_skill_dir_root(files, skill_name) ==
    IF IsFile(files, <<"SKILL.md">>) THEN Found(<<>>) ELSE NotFound

_find_skill_dir_template(files, skill_name) ==
    IF IsDir(files, <<"template">>) THEN Found(<<"template">>) ELSE NotFound

\* Mutant: the manifest SKILL.md is not asked for.
_find_skill_dir_multi_any_dir(files, skill_name) ==
    IF IsDir(files, <<skill_name>>) THEN Found(<<skill_name>>) ELSE NotFound

_find_skill_dir_multi(files, skill_name) ==
    IF IsDir(files, <<skill_name>>) /\ IsFile(files, <<skill_name, "SKILL.md">>)
    THEN Found(<<skill_name>>)
    ELSE IF \E subdir \in IterDir(files) :
                /\ IsDir(files, <<subdir>>) /\ subdir = skill_name
                /\ IsFile(files, <<subdir, "SKILL.md">>)
         THEN Found(<<skill_name>>)
    ELSE NotFound

Structures == {"standard", "root", "template", "multi"}

\* _STRUCTURE_FINDERS.get(repo.structure) applied to (local_path, skill_name)
FindSkillDir(structure, files, skill_name) ==
    CASE structure = "standard" -> _find_skill_dir_standard(files, skill_name)
      [] structure = "root" -> _find_skill_dir_root(files, skill_name)
      [] structure = "template" -> _find_skill_dir_template(files, skill_name)
      [] structure = "multi" -> _find_skill_dir_multi(files, skill_name)
      [] OTHER -> NotFound

\* Mutant: dry_run is not looked at.
_copy_skill_ignores_dry_run(root, source_dir, skill_name, force, dry_run) ==
    IF skill_name \in DOMAIN root.skills /\ ~force
    THEN [root |-> root, copied |-> FALSE]
    ELSE [root |-> [root EXCEPT !.skills = ReplaceTree(@, skill_name, source_dir)],
          copied |-> TRUE]

\* Mutant: an existing destination is not looked at.
_copy_skill_ignores_existing(root, source_dir, skill_name, force, dry_run) ==
    IF dry_run THEN [root |-> root, copied |-> TRUE]
    ELSE [root |-> [root EXCEPT !.skills = ReplaceTree(@, skill_name, source_dir)],
          copied |-> TRUE]

\* Mutant: the existing destination is not removed before the copy.
_copy_skill_merges(root, source_dir, skill_name, force, dry_run) ==
    IF skill_name \in DOMAIN root.skills /\ ~force
    THEN [root |-> root, copied |-> FALSE]
    ELSE IF dry_run THEN [root |-> root, copied |-> TRUE]
    ELSE [root |-> [root EXCEPT !.skills = CopyTreeInto(@, skill_name, source_dir)],
          copied |-> TRUE]

\* Mutant: nothing is copied without force.
_copy_skill_needs_force(root, source_dir, skill_name, force, dry_run) ==
    IF ~force THEN [root |-> root, copied |-> FALSE]
    ELSE IF dry_run THEN [root |-> root, copied |-> TRUE]
    ELSE [root |-> [root EXCEPT !.skills = ReplaceTree(@, skill_name, source_dir)],
          copied |-> TRUE]

\* Mutant: a skipped copy is reported as done.
_copy_skill_reports_skipped(root, source_dir, skill_name, force, dry_run) ==
    IF skill_name \in DOMAIN root.skills /\ ~force
    THEN [root |-> root, copied |-> TRUE]
    ELSE IF dry_run THEN [root |-> root, copied |-> TRUE]
    ELSE [root |-> [root EXCEPT !.skills = ReplaceTree(@, skill_name, source_dir)],
          copied |-> TRUE]

\* _copy_skill(source_dir, target_dir, skill_name, force, dry_run, ctx) on
\* one existing target root: the root after it and the value returned.
_copy_skill(root, source_dir, skill_name, force, dry_run) ==
    IF skill_name \in DOMAIN root.skills /\ ~force
    THEN [root |-> root, copied |-> FALSE]
    ELSE IF dry_run THEN [root |-> root, copied |-> TRUE]
    ELSE [root |-> [root EXCEPT !.skills = ReplaceTree(@, skill_name, source_dir)],
          copied |-> TRUE]

\* _copy_skill raises: it got past the skip and the dry-run returns and what
\* it does next (rmtree of an existing destination, else copytree) is refused.
\* mkdir(parents=True, exist_ok=True) of the existing root raises nothing, so
\* the root is as it was when the exception leaves.
_copy_skill_raises(root, source_dir, skill_name, force, dry_run) ==
    /\ root.denied
    /\ ~(skill_name \in DOMAIN root.skills /\ ~force)
    /\ ~dry_run

\* Mutant: an exception of _copy_skill ends the loop over the target roots.
RECURSIVE CopyToTargets_stops_at_error(_, _, _, _, _)
CopyToTargets_stops_at_error(st, source_dir, skill_name, ctx, i) ==
    IF i > 2 THEN st
    ELSE IF ~st.targets[i].exists
         THEN CopyToTargets_stops_at_error(st, source_dir, skill_name, ctx, i + 1)
    ELSE IF _copy_skill_raises(st.targets[i], source_dir, skill_name, ctx.force, ctx.dry_run)
         THEN st
    ELSE LET r == _copy_skill(st.targets[i], source_dir, skill_name, ctx.force, ctx.dry_run)
         IN  CopyToTargets_stops_at_error(
                 [targets |-> [st.targets EXCEPT ![i] = r.root],
                  any_copied |-> st.any_copied \/ r.copied],
                 source_dir, skill_name, ctx, i + 1)

\* Mutant: a missing target root is not skipped; the copy creates it.
RECURSIVE CopyToTargets_creating_roots(_, _, _, _, _)
CopyToTargets_creating_roots(st, source_dir, skill_name, ctx, i) ==
    IF i > 2 THEN st
    ELSE LET root == [st.targets[i] EXCEPT !.exists = TRUE]
             r == _copy_skill(root, source_dir, skill_name, ctx.force, ctx.dry_run)
         IN  CopyToTargets_creating_roots(
                 [targets |-> [st.targets EXCEPT ![i] = r.root],
                  any_copied |-> st.any_copied \/ r.copied],
                 source_dir, skill_name, ctx, i + 1)

\* The loop over config.skill_target_paths for one resolved skill; the
\* except clauses for PermissionError and OSError go on to the next root.
RECURSIVE CopyToTargets(_, _, _, _, _)
CopyToTargets(st, source_dir, skill_name, ctx, i) ==
    IF i > 2 THEN st
    ELSE IF ~st.targets[i].exists
         THEN CopyToTargets(st, source_dir, skill_name, ctx, i + 1)
    ELSE IF _copy_skill_raises(st.targets[i], source_dir, skill_name, ctx.force, ctx.dry_run)
         THEN CopyToTargets(st, source_dir, skill_name, ctx, i + 1)
    ELSE LET r == _copy_skill(st.targets[i], source_dir, skill_name, ctx.force, ctx.dry_run)
         IN  CopyToTargets([targets |-> [st.targets EXCEPT ![i] = r.root],
                            any_copied |-> st.any_copied \/ r.copied],
                           source_dir, skill_name, ctx, i + 1)

\* The loop over skills_to_install for one downloaded repository.
RECURSIVE InstallFromRepo(_, _, _, _, _)
InstallFromRepo(st, result, names, ctx, t) ==
    IF names = <<>> THEN st
    ELSE LET skill_name == Head(names)
             skill_dir == FindSkillDir(result.repo.structure, result.files, skill_name)
         IN  IF ~skill_dir.found
             THEN InstallFromRepo(st, result, Tail(names), ctx, t)
             ELSE LET c == CopyToTargets([targets |-> st.targets, any_copied |-> FALSE],
                                         Subtree(result.files, skill_dir.path),
                                         skill_name, ctx, 1)
                      rec == [name |-> skill_name, source |-> result.repo.name,
                              source_url |-> result.repo.url,
                              skill_path |-> skill_dir.path,
                              installed_at |-> IsoSeconds(t),
                              updated_at |-> IsoSeconds(t)]
                  IN  InstallFromRepo(
                          [targets |-> c.targets,
                           installed |-> IF c.any_copied THEN Append(st.installed, rec)
                                         ELSE st.installed],
                          result, Tail(names), ctx, t)

InSeq(x, seq) == \E k \in 1..Len(seq) : seq[k] = x

\* [s for s in repo.skills if s in skill_filter]
RECURSIVE FilterSkills(_, _)
FilterSkills(names, skill_filter) ==
    IF names = <<>> THEN <<>>
    ELSE IF InSeq(Head(names), skill_filter)
         THEN <<Head(names)>> \o FilterSkills(Tail(names), skill_filter)
    ELSE FilterSkills(Tail(names), skill_filter)

skills_to_install(repo, skill_filter) ==
    IF skill_filter # <<>> THEN FilterSkills(repo.skills, skill_filter) ELSE repo.skills

\* install_skills(config, results, ctx, skill_filter): the target roots
\* after it and the list it returns.
RECURSIVE InstallLoop(_, _, _, _, _)
InstallLoop(st, results, ctx, skill_filter, t) ==
    IF results = <<>> THEN st
    ELSE LET result == Head(results)
         IN  IF ~result.success \/ result.repo.structure \notin Structures
             THEN InstallLoop(st, Tail(results), ctx, skill_filter, t)
             ELSE InstallLoop(
                      InstallFromRepo(st, result,
                                      skills_to_install(result.repo, skill_filter), ctx, t),
                      Tail(results), ctx, skill_filter, t)

install_skills(tg, results, ctx, skill_filter, t) ==
    InstallLoop([targets |-> tg, installed |-> <<>>], results, ctx, skill_filter, t)

----------------------------------------------------------------------------
(* Inputs: fetched repositories, lockfile files, target roots *)

RepoStd == [name |-> "org/std", url |-> "https://github.com/org/std",
            structure |-> "standard", skills |-> <<"a", "b">>]
RepoMulti == [name |-> "org/multi", url |-> "https://github.com/org/multi",
              structure |-> "multi", skills |-> <<"b">>]

FilesStd == (<<"skills", "a", "SKILL.md">> :> "u1")
            @@ (<<"skills", "a", "ref", "api.md">> :> "u1")
            @@ (<<"src", "skills", "b", "SKILL.md">> :> "u1")
            @@ (<<"README.md">> :> "u1")
FilesMulti == (<<"b", "SKILL.md">> :> "u2") @@ (<<"c", "SKILL.md">> :> "u2")

Fetched(repo, files) == [repo |-> repo, files |-> files, success |-> TRUE]
Failed(repo) == [repo |-> repo, files |-> Empty, success |-> FALSE]

\* What download_repos may return for the configured repositories.
DownloadInputs ==
    { <<Failed(RepoStd), Fetched(RepoMulti, FilesMulti)>>,
      <<Fetched(RepoStd, FilesStd), Fetched(RepoMulti, FilesMulti)>> }

\* The value of the --skills option: not given (None), or its text as the
\* parts text.split(",") gives.
NoOption == [given |-> FALSE, parts |-> <<>>]
Option(parts) == [given |-> TRUE, parts |-> parts]

\* part.strip(), for the parts the options here are made of
Strip(part) ==
    CASE part = " " -> ""
      [] part = " a" -> "a"
      [] part = "a " -> "a"
      [] OTHER -> part

\* [s.strip() for s in skills.split(",") if s.strip()]
RECURSIVE StripParts(_)
StripParts(parts) ==
    IF parts = <<>> THEN <<>>
    ELSE IF Strip(Head(parts)) # ""
         THEN <<Strip(Head(parts))>> \o StripParts(Tail(parts))
    ELSE StripParts(Tail(parts))

\* skill_list of _run_update: the list, or None when the option is not given
\* or its text is empty ("".split(",") is [""]).
skill_list(skills) ==
    IF skills.given /\ skills.parts # <<"">>
    THEN [none |-> FALSE, names |-> StripParts(skills.parts)]
    ELSE [none |-> TRUE, names |-> <<>>]

\* The --skills options of the update runs.
FilterInputs == { NoOption, Option(<<"a">>) }

\* The skill argument of the rollback command; NoSkill when it is not given.
RollbackInputs == {NoSkill, "a"}

EntryOld == [source |-> "org/std", sourceUrl |-> "https://github.com/org/std",
             skillPath |-> <<"skills", "a">>, installedAt |-> 0, updatedAt |-> 0]

LockfileInputs ==
    { MissingFile,
      LockfileToFile("a" :> EntryOld),
      LockfileToFile(("a" :> EntryOld) @@ ("b" :> EntryOld)) }

\* A target root: whether the directory exists, the skill directories in it,
\* and whether it refuses writes (a read-only tree: creating, replacing or
\* removing anything below it raises PermissionError or OSError).
NoRoot == [exists |-> FALSE, skills |-> Empty, denied |-> FALSE]
RootWith(tree) == [exists |-> TRUE, skills |-> tree, denied |-> FALSE]
DeniedRoot(tree) == [exists |-> TRUE, skills |-> tree, denied |-> TRUE]

TargetInputs ==
    { <<RootWith("a" :> DirOld), NoRoot>>,
      <<RootWith(("a" :> DirOld) @@ ("b" :> DirOld)), RootWith("a" :> DirEdited)>> }

ConfigInputs ==
    { [paths |-> <<PathAB, PathAC>>, keep |-> KeepBackups],
      [paths |-> <<PathAB, PathA_B>>, keep |-> KeepBackups] }

NoBackupRoot == [exists |-> FALSE, snaps |-> Empty]
EmptyBackupRoot == [exists |-> TRUE, snaps |-> Empty]

\* An earlier update run, at clock value 0, may have left a snapshot.
PriorTargets == <<RootWith("a" :> DirOld), NoRoot>>
PriorEntries == "a" :> EntryOld
PriorBackupRoot(cfg) == create_backup(NoBackupRoot, PriorTargets, cfg, PriorEntries, 0)

NoShot == [set |-> FALSE, label |-> 0, targets |-> <<NoRoot, NoRoot>>,
           entries |-> Empty, count |-> 0, labels |-> {}]
PriorShot == [set |-> TRUE, label |-> _timestamp_label(0), targets |-> PriorTargets,
              entries |-> PriorEntries, count |-> 1, labels |-> {_timestamp_label(0)}]

NoCtx == [dry_run |-> FALSE, force |-> FALSE]
NoRun == [ctx |-> NoCtx, filter_given |-> FALSE, skill_filter |-> <<>>, lockfile |-> Empty,
          results |-> <<>>, installed |-> <<>>]
NoPre == [set |-> FALSE, targets |-> <<NoRoot, NoRoot>>, lockdisk |-> MissingFile,
          backups |-> NoBackupRoot]
NoResolved == [called |-> FALSE, structure |-> "standard", files |-> Empty,
               skill_name |-> "a", result |-> NotFound]
NoLast == [op |-> "none", dry_run |-> FALSE, force |-> FALSE, skill |-> NoSkill,
           ret |-> FALSE, exit |-> 0, names |-> {}, undo |-> FALSE,
           targetsChanged |-> FALSE, lockChanged |-> FALSE,
           raised |-> FALSE, listed |-> <<>>]

InstalledNames(installed) == {installed[k].name : k \in DOMAIN installed}

----------------------------------------------------------------------------
(* The state machine *)

Init ==
    /\ config \in ConfigInputs
    /\ now = 0
    /\ targets \in TargetInputs
    /\ lockdisk \in LockfileInputs
    /\ locktmp = MissingFile
    /\ \/ backups \in {NoBackupRoot, EmptyBackupRoot} /\ shot = NoShot
       \/ backups = PriorBackupRoot(config) /\ shot = PriorShot
    /\ pc = "idle"
    /\ run = NoRun
    /\ last = NoLast
    /\ pre = NoPre
    /\ ops = 0
    /\ resolved = NoResolved

\* Time passes between commands.  The clock does not go back; two readings
\* of it may agree.
Tick ==
    /\ pc = "idle"
    /\ now < MaxClock
    /\ now' = now + 1
    /\ UNCHANGED <<resolved, locktmp, config, targets, lockdisk, backups, pc, run, last, pre, shot, ops>>

\* Between commands the user rewrites or removes a skill directory.
EditSkill(i, s, dirs) ==
    /\ pc = "idle"
    /\ ops < MaxOps
    /\ targets[i].exists
    /\ \/ \E d \in dirs :
            targets' = [targets EXCEPT ![i].skills = ReplaceTree(@, s, d)]
       \/ /\ s \in DOMAIN targets[i].skills
          /\ targets' = [targets EXCEPT ![i].skills = Restrict(@, DOMAIN @ \ {s})]
    /\ last' = [NoLast EXCEPT !.op = "edit", !.skill = s, !.targetsChanged = TRUE]
    /\ pre' = NoPre
    /\ ops' = ops + 1
    /\ UNCHANGED <<resolved, locktmp, config, now, lockdisk, backups, pc, run, shot>>

\* _run_update up to `lockfile = load_lockfile(config)`.  install_skills
\* tests `if skill_filter:`, which None and the empty list both fail, so
\* run.skill_filter is <<>> for either and run.filter_given tells them apart.
UpdateLoad(dry_run, force, skills) ==
    /\ pc = "idle"
    /\ ops < MaxOps
    /\ pc' = "loaded"
    /\ run' = [NoRun EXCEPT !.ctx = [dry_run |-> dry_run, force |-> force],
                            !.filter_given = ~skill_list(skills).none,
                            !.skill_filter = skill_list(skills).names,
                            !.lockfile = load_lockfile(lockdisk)]
    /\ pre' = [set |-> TRUE, targets |-> targets, lockdisk |-> lockdisk,
               backups |-> backups]
    /\ last' = NoLast
    /\ ops' = ops + 1
    /\ UNCHANGED <<resolved, locktmp, config, now, targets, lockdisk, backups, shot>>

\* `if not ctx.dry_run: create_backup(config, lockfile)`
UpdateBackup ==
    /\ pc = "loaded"
    /\ pc' = "backed"
    /\ IF run.ctx.dry_run
       THEN UNCHANGED <<backups, shot>>
       ELSE LET info == CreateBackupResult(targets, run.lockfile, now)
            IN  /\ backups' = create_backup(backups, targets, config, run.lockfile, now)
                /\ shot' = IF info.kind = "none" THEN shot
                           ELSE [set |-> TRUE,
                                 label |-> info.timestamp,
                                 targets |-> targets,
                                 entries |-> run.lockfile,
                                 count |-> shot.count + 1,
                                 labels |-> shot.labels \cup {info.timestamp}]
    /\ UNCHANGED <<resolved, locktmp, config, now, targets, lockdisk, run, last, pre, ops>>

\* `results = download_repos(config, ctx)` and
\* `installed = install_skills(config, results, ctx, skill_filter=skill_list)`
UpdateInstall(results) ==
    /\ pc = "backed"
    /\ pc' = "installed"
    /\ LET r == install_skills(targets, results, run.ctx, run.skill_filter, now)
       IN  /\ targets' = r.targets
           /\ run' = [run EXCEPT !.results = results, !.installed = r.installed]
    /\ UNCHANGED <<resolved, locktmp, config, now, lockdisk, backups, last, pre, shot, ops>>

\* Mutant: only the records of this run are persisted.
UpdateSaveOnlyInstalled ==
    /\ pc = "installed"
    /\ pc' = "idle"
    /\ lockdisk' = IF run.ctx.dry_run THEN lockdisk
                   ELSE save_lockfile(UpdateEntries(Empty, run.installed, now))
    /\ last' = [NoLast EXCEPT !.op = "update", !.dry_run = run.ctx.dry_run,
                              !.force = run.ctx.force,
                              !.names = InstalledNames(run.installed),
                              !.targetsChanged = (targets # pre.targets),
                              !.lockChanged = (lockdisk' # lockdisk)]
    /\ run' = NoRun
    /\ UNCHANGED <<resolved, locktmp, config, now, targets, backups, pre, shot, ops>>

\* `if not ctx.dry_run:` update_entry for each installed skill, save_lockfile
UpdateSave ==
    /\ pc = "installed"
    /\ pc' = "idle"
    /\ lockdisk' = IF run.ctx.dry_run THEN lockdisk
                   ELSE save_lockfile(UpdateEntries(run.lockfile, run.installed, now))
    /\ last' = [NoLast EXCEPT !.op = "update", !.dry_run = run.ctx.dry_run,
                              !.force = run.ctx.force,
                              !.names = InstalledNames(run.installed),
                              !.targetsChanged = (targets # pre.targets),
                              !.lockChanged = (lockdisk' # lockdisk)]
    /\ run' = NoRun
    /\ UNCHANGED <<resolved, locktmp, config, now, targets, backups, pre, shot, ops>>

\* The rollback command: restore_backup(config, ctx, skill_name=skill), then
\* sys.exit(1) unless it returned True.  An exception of restore_backup is
\* caught nowhere: the command ends with a traceback and exit status 1.
rollback(skill, dry_run) ==
    /\ pc = "idle"
    /\ ops < MaxOps
    /\ LET raises == restore_backup_raises(backups, targets, config, skill, dry_run)
           r == IF raises
                THEN [targets |-> restore_backup_crash(backups, targets, config,
                                                       skill, dry_run),
                      lockdisk |-> lockdisk, ret |-> FALSE]
                ELSE restore_backup(backups, targets, lockdisk, config, skill, dry_run)
       IN  /\ targets' = r.targets
           /\ lockdisk' = r.lockdisk
           /\ last' = [NoLast EXCEPT !.op = "rollback", !.dry_run = dry_run,
                                     !.skill = skill, !.ret = r.ret,
                                     !.raised = raises,
                                     !.exit = IF r.ret THEN 0 ELSE 1,
                                     !.names = last.names,
                                     !.undo = (last.op = "update" /\ ~last.dry_run),
                                     !.targetsChanged = (r.targets # targets),
                                     !.lockChanged = (r.lockdisk # lockdisk)]
    /\ pre' = IF last.op = "update" THEN pre ELSE NoPre
    /\ ops' = ops + 1
    /\ UNCHANGED <<resolved, locktmp, config, now, backups, pc, run, shot>>

\* The list-backups command: it shows what list_backups(config) returns; an
\* exception of list_backups ends it with a traceback and exit status 1.
list_backups_cmd ==
    /\ pc = "idle"
    /\ ops < MaxOps
    /\ LET raises == list_backups_raises(backups)
       IN  last' = [NoLast EXCEPT !.op = "list-backups",
                                  !.raised = raises,
                                  !.exit = IF raises THEN 1 ELSE 0,
                                  !.listed = IF raises THEN <<>> ELSE list_backups(backups)]
    /\ pre' = NoPre
    /\ ops' = ops + 1
    /\ UNCHANGED <<resolved, locktmp, config, now, targets, lockdisk, backups, pc, run, shot>>

Next ==
    \/ Tick
    \/ \E i \in RootIdx, s \in Skills : EditSkill(i, s, UserDirs)
    \/ \E d \in BOOLEAN, f \in BOOLEAN, sf \in FilterInputs : UpdateLoad(d, f, sf)
    \/ UpdateBackup
    \/ \E results \in DownloadInputs : UpdateInstall(results)
    \/ UpdateSave
    \/ \E s \in RollbackInputs, d \in BOOLEAN : rollback(s, d)

Spec == Init /\ [][Next]_vars

----------------------------------------------------------------------------
(* The commands where the environment is not as an update run leaves it:    *)
(* target roots that refuse writes, snapshot directories whose               *)
(* backup-meta.json was damaged or that hold no skill, and --skills texts    *)
(* that name nothing.                                                        *)

\* --skills not given, "", ",", " a, " and "b".
OptionInputs ==
    { NoOption, Option(<<"">>), Option(<<"", "">>), Option(<<" a", " ">>),
      Option(<<"b">>) }

FaultTargetInputs ==
    { <<DeniedRoot("a" :> DirOld), RootWith(Empty)>>,
      <<RootWith("a" :> DirEdited), DeniedRoot(Empty)>>,
      <<DeniedRoot(Empty), NoRoot>> }

\* The clock reading of a run before the one that made the prior snapshot.
OlderLabel == 0 - 1

\* The snapshot a run leaves whose lockfile names a skill no target root holds.
BareBackupRoot(cfg) ==
    create_backup(NoBackupRoot, <<RootWith(Empty), NoRoot>>, cfg, PriorEntries, 0)

\* Two snapshots; backup-meta.json of the newer one is of the given kind.
DamagedBackupRoot(cfg, kind) ==
    LET older == create_backup(NoBackupRoot, PriorTargets, cfg, PriorEntries, OlderLabel)
        both == create_backup(older, <<RootWith("a" :> DirEdited), NoRoot>>, cfg,
                              PriorEntries, 0)
    IN  [both EXCEPT !.snaps[_timestamp_label(0)].meta =
                        [kind |-> kind, timestamp |-> 0, skills |-> {}]]

MetaKinds == {"missing", "corrupt", "empty_object", "array", "skills_null", "undecodable"}

FaultInit ==
    /\ config = [paths |-> <<PathAB, PathAC>>, keep |-> KeepBackups]
    /\ now = 0
    /\ lockdisk = LockfileToFile(("a" :> EntryOld) @@ ("b" :> EntryOld))
    /\ locktmp = MissingFile
    /\ \/ /\ targets \in FaultTargetInputs
          /\ \/ backups = NoBackupRoot /\ shot = NoShot
             \/ backups = PriorBackupRoot(config) /\ shot = PriorShot
       \/ /\ targets = <<RootWith("b" :> DirOld), NoRoot>>
          /\ shot = NoShot
          /\ \/ backups = BareBackupRoot(config)
             \/ \E kind \in MetaKinds : backups = DamagedBackupRoot(config, kind)
    /\ pc = "idle"
    /\ run = NoRun
    /\ last = NoLast
    /\ pre = NoPre
    /\ ops = 0
    /\ resolved = NoResolved

FaultNext ==
    \/ Tick
    \/ \E d \in BOOLEAN, f \in BOOLEAN, skills \in OptionInputs : UpdateLoad(d, f, skills)
    \/ UpdateBackup
    \/ \E results \in DownloadInputs : UpdateInstall(results)
    \/ UpdateSave
    \/ \E s \in RollbackInputs, d \in BOOLEAN : rollback(s, d)
    \/ list_backups_cmd

FaultSpec == FaultInit /\ [][FaultNext]_vars

----------------------------------------------------------------------------
(* lockfile.py on its own: load_lockfile, Lockfile.update_entry and the     *)
(* steps of save_lockfile, over lockfile files of every shape.  run.lockfile *)
(* is the Lockfile in memory, pre.lockdisk the file as save_lockfile found   *)
(* it, last.exit = 1 says that the last call raised.                         *)

\* The InstalledSkill records handed to update_entry.
InstalledSkillInputs ==
    { [name |-> "a", source |-> RepoStd.name, source_url |-> RepoStd.url,
       skill_path |-> <<"skills", "a">>, installed_at |-> 0, updated_at |-> 0],
      [name |-> "b", source |-> RepoMulti.name, source_url |-> RepoMulti.url,
       skill_path |-> <<"b">>, installed_at |-> 0, updated_at |-> 0] }

\* Lockfile files as they may be found: missing, no text, no JSON, JSON of
\* the wrong shape, the layout without a "skills" key, and entries that are
\* no mappings or hold values that are no strings.
LockfileFiles ==
    { MissingFile, UndecodableFile, CorruptFile,
      JsonFile(JArray("[1, 2]")),
      JsonFile(JObject("skills" :> JNull)),
      LockfileToFile(Empty),
      LockfileToFile("a" :> EntryOld),
      JsonFile(JObject(("a" :> JObject("source" :> JString("test")))
                       @@ ("version" :> JNumber("1")))),
      JsonFile(JObject(("version" :> JNumber("1"))
                       @@ ("skills" :> JObject(
                              ("a" :> DumpEntries("a" :> EntryOld).fields["a"])
                              @@ ("b" :> JString("x"))
                              @@ ("c" :> JObject(("source" :> JNumber("5"))
                                                 @@ ("note" :> JNull)))
                              @@ ("d" :> JObject(Empty)))))) }

\* The text written so far, when the write stops before the end: a proper
\* prefix of a JSON object's text is no JSON text.
Truncated(doc) == CorruptFile

LockInit ==
    /\ config \in {c \in ConfigInputs : c.paths = <<PathAB, PathAC>>}
    /\ now = 0
    /\ targets = <<NoRoot, NoRoot>>
    /\ lockdisk \in LockfileFiles
    /\ locktmp = MissingFile
    /\ backups = NoBackupRoot
    /\ shot = NoShot
    /\ pc = "idle"
    /\ run = NoRun
    /\ last = NoLast
    /\ pre = NoPre
    /\ ops = 0
    /\ resolved = NoResolved

\* lockfile = load_lockfile(config)
LockLoad ==
    /\ pc = "idle"
    /\ LET r == LoadOutcome(lockdisk)
       IN  /\ run' = IF r.raised THEN run ELSE [run EXCEPT !.lockfile = r.entries]
           /\ last' = [NoLast EXCEPT !.op = "load", !.exit = IF r.raised THEN 1 ELSE 0]
    /\ UNCHANGED <<resolved, locktmp, config, now, targets, lockdisk, backups, pc, pre, shot, ops>>

\* lockfile.update_entry(skill)
LockUpdateEntry(skill) ==
    /\ pc = "idle"
    /\ run' = [run EXCEPT !.lockfile = update_entry(@, skill, now)]
    /\ last' = [NoLast EXCEPT !.op = "update_entry", !.skill = skill.name]
    /\ UNCHANGED <<resolved, locktmp, config, now, targets, lockdisk, backups, pc, pre, shot, ops>>

\* save_lockfile up to tempfile.mkstemp: the temporary file exists, empty.
SaveCreateTemp ==
    /\ pc = "idle"
    /\ pc' = "save_tmp"
    /\ locktmp' = Truncated(save_lockfile(run.lockfile))
    /\ pre' = [NoPre EXCEPT !.set = TRUE, !.lockdisk = lockdisk]
    /\ last' = NoLast
    /\ UNCHANGED <<resolved, config, now, targets, lockdisk, backups, run, shot, ops>>

\* Mutant: the content is written to the lockfile path itself.
SaveWriteInPlace ==
    /\ \/ /\ pc = "save_tmp"
          /\ pc' = "save_part"
          /\ lockdisk' = Truncated(save_lockfile(run.lockfile))
       \/ /\ pc = "save_part"
          /\ pc' = "save_full"
          /\ lockdisk' = save_lockfile(run.lockfile)
    /\ locktmp' = lockdisk'
    /\ UNCHANGED <<resolved, config, now, targets, backups, run, last, pre, shot, ops>>

\* f.write(content), in two parts
SaveWrite ==
    /\ \/ /\ pc = "save_tmp"
          /\ pc' = "save_part"
          /\ locktmp' = Truncated(save_lockfile(run.lockfile))
       \/ /\ pc = "save_part"
          /\ pc' = "save_full"
          /\ locktmp' = save_lockfile(run.lockfile)
    /\ UNCHANGED <<resolved, config, now, targets, lockdisk, backups, run, last, pre, shot, ops>>

\* Path(tmp_path).replace(path)
SaveReplace ==
    /\ pc = "save_full"
    /\ pc' = "idle"
    /\ lockdisk' = locktmp
    /\ locktmp' = MissingFile
    /\ last' = [NoLast EXCEPT !.op = "save", !.lockChanged = (locktmp # lockdisk)]
    /\ UNCHANGED <<resolved, config, now, targets, backups, run, pre, shot, ops>>

\* A step of save_lockfile fails with OSError: mkdir or mkstemp (no
\* temporary file yet), the write, the close or the rename (the temporary
\* file is unlinked); the error is raised to the caller.
SaveFail ==
    /\ pc \in {"idle", "save_tmp", "save_part", "save_full"}
    /\ pc' = "idle"
    /\ locktmp' = MissingFile
    /\ pre' = IF pc = "idle" THEN [NoPre EXCEPT !.set = TRUE, !.lockdisk = lockdisk]
              ELSE pre
    /\ last' = [NoLast EXCEPT !.op = "save", !.exit = 1]
    /\ UNCHANGED <<resolved, config, now, targets, lockdisk, backups, run, shot, ops>>

LockNext ==
    \/ Tick
    \/ LockLoad
    \/ \E skill \in InstalledSkillInputs : LockUpdateEntry(skill)
    \/ SaveCreateTemp
    \/ SaveWrite
    \/ SaveReplace
    \/ SaveFail

LockSpec == LockInit /\ [][LockNext]_vars

----------------------------------------------------------------------------
(* installer.py, the _find_skill_dir_* functions on their own: one call of   *)
(* the finder of a structure on a fetched repository of any layout.          *)

\* The entries a fetched repository may hold, each a file or a directory.
LayoutPaths ==
    { <<"skills", "a">>, <<"skills", "a", "SKILL.md">>,
      <<"src", "skills", "a">>, <<"src", "skills", "b", "SKILL.md">>,
      <<"SKILL.md">>, <<"template">>, <<"a">>, <<"a", "SKILL.md">> }

LayoutContents == {"u1", DirMark}

\* Only a directory holds entries.
ConsistentLayout(files) ==
    \A p \in DOMAIN files, q \in DOMAIN files :
        (Len(q) > Len(p) /\ IsPrefix(p, q)) => files[p] = DirMark

RepoLayouts ==
    {files \in UNION {[P -> LayoutContents] : P \in SUBSET LayoutPaths} :
        ConsistentLayout(files)}

SkillNameInputs == {"a", "b"}

ResolverInit ==
    /\ config \in {c \in ConfigInputs : c.paths = <<PathAB, PathAC>>}
    /\ now = 0
    /\ targets = <<NoRoot, NoRoot>>
    /\ lockdisk = MissingFile
    /\ locktmp = MissingFile
    /\ backups = NoBackupRoot
    /\ shot = NoShot
    /\ pc = "idle"
    /\ run = NoRun
    /\ last = NoLast
    /\ pre = NoPre
    /\ ops = 0
    /\ \E structure \in Structures, files \in RepoLayouts, skill_name \in SkillNameInputs :
          resolved = [called |-> FALSE, structure |-> structure, files |-> files,
                      skill_name |-> skill_name, result |-> NotFound]

\* skill_dir = finder(result.local_path, skill_name)
FindSkillDirCall ==
    /\ pc = "idle"
    /\ ~resolved.called
    /\ resolved' = [resolved EXCEPT
                       !.called = TRUE,
                       !.result = FindSkillDir(resolved.structure, resolved.files,
                                               resolved.skill_name)]
    /\ UNCHANGED <<config, now, targets, lockdisk, locktmp, backups, pc, run, last,
                   pre, shot, ops>>

ResolverNext == FindSkillDirCall

ResolverSpec == ResolverInit /\ [][ResolverNext]_vars

----------------------------------------------------------------------------
(* Steps and recorded facts the properties speak of *)

\* A step that runs the rollback command.
RollbackStep == ops' = ops + 1 /\ last'.op = "rollback"

\* A step that runs restore_backup(skill_name=None) with dry_run=False.
RestoreAllStep == RollbackStep /\ ~last'.dry_run /\ last'.skill = NoSkill

\* The step of an update run that calls install_skills.
InstallStep == pc = "backed" /\ pc' = "installed"

\* A step of an update run made with --dry-run.
DryUpdateStep ==
    \/ pc # "idle" /\ run.ctx.dry_run
    \/ pc = "idle" /\ pc' = "loaded" /\ run'.ctx.dry_run

\* The skill directories the last create_backup found in target root i.
Captured(i) ==
    IF shot.targets[i].exists
    THEN DOMAIN shot.entries \cap DOMAIN shot.targets[i].skills
    ELSE {}

NewestSnapshot == backups.snaps[list_backups(backups)[1].path]

SameSkillDir(t1, t2, i, s) ==
    /\ (s \in DOMAIN t1[i].skills) = (s \in DOMAIN t2[i].skills)
    /\ s \in DOMAIN t1[i].skills => t1[i].skills[s] = t2[i].skills[s]

----------------------------------------------------------------------------
(* Properties *)

\* C1: after create_backup (non-empty lockfile, at least one skill directory
\* captured) and any later edits, restore_backup(skill_name=None,
\* dry_run=False) with no newer snapshot returns True and every captured
\* skill directory has, in every target root it was captured from, exactly
\* the content it had at capture time.
C1_RoundTrip ==
    [][ (RestoreAllStep /\ shot.set /\ \E i \in RootIdx : Captured(i) # {})
        => /\ last'.ret
           /\ \A i \in RootIdx : \A s \in Captured(i) :
                 /\ s \in DOMAIN targets'[i].skills
                 /\ targets'[i].skills[s] = shot.targets[i].skills[s] ]_vars

\* C2 (as claimed): a non-dry-run update run followed immediately by a
\* non-dry-run rollback of all skills leaves every target root's skill
\* directories and the live lockfile as they were before the update run.
C2_UpdateReversed ==
    [][ (RestoreAllStep /\ last.op = "update" /\ ~last.dry_run)
        => /\ \A i \in RootIdx : targets'[i].skills = pre.targets[i].skills
           /\ load_lockfile(lockdisk') = load_lockfile(pre.lockdisk) ]_vars

\* C2 (amended): such a rollback restores the lockfile entries of before the
\* update run when there were any; when there were none the update run took
\* no snapshot; and the rollback leaves alone every skill directory that
\* the newest snapshot does not hold for its target root, so a skill the
\* update run newly installed stays.
C2_UndoLimits ==
    [][ (RestoreAllStep /\ last.op = "update" /\ ~last.dry_run)
        => /\ DOMAIN load_lockfile(pre.lockdisk) # {}
                => load_lockfile(lockdisk') = load_lockfile(pre.lockdisk)
           /\ DOMAIN load_lockfile(pre.lockdisk) = {} => backups = pre.backups
           /\ \A i \in RootIdx : \A s \in Skills :
                 LET lab == target_label(config.paths[i])
                     held == /\ list_backups(backups) # <<>>
                             /\ lab \in DOMAIN NewestSnapshot.trees
                             /\ s \in DOMAIN NewestSnapshot.trees[lab]
                 IN  ~held => SameSkillDir(targets, targets', i, s) ]_vars

\* Witness of C2: a rollback right after an update run has restored a
\* non-empty lockfile, and a skill directory the run created is still there.
C2_Witness ==
    /\ last.op = "rollback" /\ last.undo /\ ~last.dry_run /\ last.skill = NoSkill
    /\ pre.set /\ DOMAIN load_lockfile(pre.lockdisk) # {}
    /\ last.lockChanged
    /\ load_lockfile(lockdisk) = load_lockfile(pre.lockdisk)
    /\ \E i \in RootIdx : \E s \in last.names :
          /\ pre.targets[i].exists
          /\ s \notin DOMAIN pre.targets[i].skills
          /\ s \in DOMAIN targets[i].skills

\* C3: after keepN + k successful create_backup calls from an empty backup
\* root, exactly keepN snapshot directories remain, those with the greatest
\* labels.
C3_Retention ==
    shot.count >= config.keep
        => /\ Cardinality(DOMAIN backups.snaps) = config.keep
           /\ DOMAIN backups.snaps = Kept(shot.labels, config.keep)

\* C4: with dry_run set, the update command (its install_skills call
\* included) and restore_backup leave the target roots, the lockfile file
\* and the backup root as they were, whatever the other flags.
C4_DryRunFrame ==
    [][ (DryUpdateStep \/ (RollbackStep /\ last'.dry_run))
        => UNCHANGED <<targets, lockdisk, backups>> ]_vars

\* Witness of C4: a dry run with --force has reported skills it would
\* install, over a disk equal to the one it started from.
C4_Witness ==
    /\ last.op = "update" /\ last.dry_run /\ last.force /\ last.names # {}
    /\ pre.set /\ targets = pre.targets /\ lockdisk = pre.lockdisk
    /\ backups = pre.backups
    /\ DOMAIN load_lockfile(lockdisk) # {}

\* The subtree an InstalledSkill record was copied from.
SourceOf(results, rec) ==
    LET k == CHOOSE j \in DOMAIN results :
                 results[j].success /\ results[j].repo.name = rec.source
    IN  Subtree(results[k].files, rec.skill_path)

\* The source subtrees that install_skills resolves for skill s.
ResolvedSources(results, skill_filter, s) ==
    { Subtree(results[k].files,
              FindSkillDir(results[k].repo.structure, results[k].files, s).path) :
        k \in { j \in DOMAIN results :
                  /\ results[j].success
                  /\ InSeq(s, skills_to_install(results[j].repo, skill_filter))
                  /\ FindSkillDir(results[j].repo.structure, results[j].files, s).found } }

LastRecord(installed, s) ==
    installed[CHOOSE k \in DOMAIN installed :
                  /\ installed[k].name = s
                  /\ \A j \in DOMAIN installed : installed[j].name = s => j <= k]

SourceDirs == {Subtree(FilesStd, <<"skills", "a">>), Subtree(FilesMulti, <<"b">>)}

\* C5: without force, install_skills never changes a skill directory that
\* exists (_copy_skill returns False and leaves the root as it was, dry run
\* or not), and a skill that exists in every existing target root gets no
\* record.
C5_SkipExisting ==
    [][ (InstallStep /\ ~run.ctx.force)
        => /\ \A i \in RootIdx : \A s \in DOMAIN targets[i].skills :
                 /\ SameSkillDir(targets, targets', i, s)
                 /\ \A src \in SourceDirs : \A d \in BOOLEAN :
                       _copy_skill(targets[i], src, s, FALSE, d)
                           = [root |-> targets[i], copied |-> FALSE]
           /\ \A s \in Skills :
                 (\A i \in RootIdx : targets[i].exists => s \in DOMAIN targets[i].skills)
                     => s \notin InstalledNames(run'.installed) ]_vars

\* Witness of C5: the fetched repository offers a and b, a exists in every
\* existing target root and b does not: b is installed, a is skipped and
\* unchanged.
C5_Witness ==
    /\ pc = "installed" /\ ~run.ctx.force /\ ~run.ctx.dry_run
    /\ run.results[1].success /\ run.skill_filter = <<>>
    /\ \A i \in RootIdx : pre.targets[i].exists => "a" \in DOMAIN pre.targets[i].skills
    /\ "a" \notin InstalledNames(run.installed)
    /\ "b" \in InstalledNames(run.installed)
    /\ targets[1].skills["a"] = pre.targets[1].skills["a"]

\* C6: with force and no dry run, a skill directory that exists and is
\* installed again ends up equal to the source subtree: nothing of the old
\* directory survives.
C6_ForceReplaces ==
    [][ (InstallStep /\ run.ctx.force /\ ~run.ctx.dry_run)
        => \A i \in RootIdx : \A s \in DOMAIN targets[i].skills :
              /\ s \in InstalledNames(run'.installed)
                    => targets'[i].skills[s]
                         = SourceOf(run'.results, LastRecord(run'.installed, s))
              /\ \A src \in SourceDirs :
                    LET r == _copy_skill(targets[i], src, s, TRUE, FALSE)
                    IN  /\ r.copied
                        /\ r.root.skills[s] = src ]_vars

\* Witness of C6: the old directory of a held docs/notes.md, which the
\* source lacks; after the forced install it is gone.
C6_Witness ==
    /\ pc = "installed" /\ run.ctx.force /\ ~run.ctx.dry_run
    /\ "a" \in InstalledNames(run.installed)
    /\ pre.targets[1].skills["a"] = DirOld
    /\ targets[1].skills["a"] = Subtree(FilesStd, <<"skills", "a">>)
    /\ <<"docs", "notes.md">> \notin DOMAIN targets[1].skills["a"]

\* C7: without dry run, installing a resolved skill into an existing target
\* root that lacks it succeeds whatever force is: the skill is recorded and
\* the destination is a full copy of a source subtree resolved for it.
C7_InstallFresh ==
    [][ (InstallStep /\ ~run.ctx.dry_run)
        => \A i \in RootIdx : \A s \in Skills \ DOMAIN targets[i].skills :
              targets[i].exists
              => /\ ResolvedSources(run'.results, run.skill_filter, s) # {}
                    => /\ s \in InstalledNames(run'.installed)
                       /\ s \in DOMAIN targets'[i].skills
                       /\ targets'[i].skills[s]
                            \in ResolvedSources(run'.results, run.skill_filter, s)
                 /\ \A src \in SourceDirs : \A f \in BOOLEAN :
                       LET r == _copy_skill(targets[i], src, s, f, FALSE)
                       IN  /\ r.copied
                           /\ r.root.exists
                           /\ DOMAIN r.root.skills = DOMAIN targets[i].skills \cup {s}
                           /\ r.root.skills[s] = src
                           /\ \A o \in DOMAIN targets[i].skills :
                                 r.root.skills[o] = targets[i].skills[o] ]_vars

\* Witness of C7: a was missing from a target root and is now the copy of
\* skills/a of the repository, nested ref/api.md included.
C7_Witness ==
    /\ pc = "installed" /\ ~run.ctx.dry_run
    /\ \E i \in RootIdx :
          /\ pre.targets[i].exists
          /\ "a" \notin DOMAIN pre.targets[i].skills
          /\ "a" \in DOMAIN targets[i].skills
          /\ targets[i].skills["a"] = Subtree(FilesStd, <<"skills", "a">>)
          /\ targets[i].skills["a"][<<"ref", "api.md">>] = "u1"
    /\ "a" \in InstalledNames(run.installed)

\* C8: restore_backup with a skill name leaves every other skill directory
\* of every target root, and the lockfile file, as they were.
C8_RestoreOne ==
    [][ (RollbackStep /\ last'.skill # NoSkill)
        => /\ lockdisk' = lockdisk
           /\ \A i \in RootIdx : \A s \in Skills \ {last'.skill} :
                 SameSkillDir(targets, targets', i, s) ]_vars

\* Witness of C8: a was restored; the snapshot also holds b for the first
\* root, whose b differs from it and stayed, as did the lockfile.
C8_Witness ==
    /\ last.op = "rollback" /\ last.skill = "a" /\ ~last.dry_run
    /\ last.ret /\ last.targetsChanged
    /\ LET lab == target_label(config.paths[1])
       IN  /\ lab \in DOMAIN NewestSnapshot.trees
           /\ "b" \in DOMAIN NewestSnapshot.trees[lab]
           /\ "b" \in DOMAIN targets[1].skills
           /\ targets[1].skills["b"] # NewestSnapshot.trees[lab]["b"]
    /\ lockdisk # NewestSnapshot.lockfile

\* C9: restore_backup with no skill name and no dry run, when a snapshot
\* exists, makes the lockfile file the copy kept in the newest snapshot:
\* load_lockfile then returns the entries create_backup was given when it
\* wrote that snapshot.
C9_LockfileRestored ==
    [][ (RestoreAllStep /\ list_backups(backups) # <<>>)
        => /\ lockdisk' = NewestSnapshot.lockfile
           /\ shot.set /\ shot.label = list_backups(backups)[1].path
           /\ load_lockfile(lockdisk') = shot.entries ]_vars

\* Witness of C9: the update run had changed the lockfile; the rollback
\* changed it back to the captured entries.
C9_Witness ==
    /\ last.op = "rollback" /\ ~last.dry_run /\ last.skill = NoSkill
    /\ last.lockChanged
    /\ shot.set /\ DOMAIN shot.entries # {}
    /\ load_lockfile(lockdisk) = shot.entries

\* C10: with no snapshot (backup root missing or empty) restore_backup
\* returns False and changes nothing; the rollback command exits non-zero.
C10_NoSnapshot ==
    [][ (RollbackStep /\ list_backups(backups) = <<>>)
        => /\ ~last'.ret
           /\ last'.exit = 1
           /\ UNCHANGED <<targets, lockdisk, backups>> ]_vars

\* Witness of C10: a rollback that found the backup root missing has failed.
C10_Witness ==
    /\ last.op = "rollback" /\ ~last.dry_run /\ last.skill = NoSkill
    /\ ~backups.exists
    /\ ~last.ret /\ last.exit = 1
    /\ \E i \in RootIdx : targets[i].skills # Empty

\* C11: create_backup with a lockfile that has no entries returns None and
\* leaves the backup root as it was: no backup root and no snapshot
\* directory is created and no snapshot is removed.
C11_NothingToBackUp ==
    [][ (pc = "loaded" /\ pc' = "backed" /\ ~run.ctx.dry_run
         /\ DOMAIN run.lockfile = {})
        => /\ CreateBackupResult(targets, run.lockfile, now).kind = "none"
           /\ create_backup(backups, targets, config, run.lockfile, now) = backups
           /\ backups' = backups
           /\ shot' = shot ]_vars

\* Witness of C11: an update run has passed its backup step with an empty
\* lockfile; the backup root is still missing although a target root holds
\* skill directories.
C11_Witness ==
    /\ pc = "backed" /\ ~run.ctx.dry_run /\ DOMAIN run.lockfile = {}
    /\ ~backups.exists /\ ~pre.backups.exists
    /\ \E i \in RootIdx : targets[i].skills # Empty

\* C12: list_backups returns one BackupInfo per snapshot directory, and the
\* timestamp of each element is strictly greater than that of the next.
C12_NewestFirst ==
    LET listed == list_backups(backups)
    IN  /\ Len(listed) = Cardinality(DOMAIN backups.snaps)
        /\ {listed[k].path : k \in 1..Len(listed)} = DOMAIN backups.snaps
        /\ \A k \in 1..(Len(listed) - 1) :
               listed[k].timestamp > listed[k + 1].timestamp

\* Witness of C12: two snapshots are listed, the later one first.
C12_Witness ==
    /\ Len(list_backups(backups)) = 2
    /\ list_backups(backups)[1].timestamp = 1
    /\ list_backups(backups)[2].timestamp = 0
    /\ list_backups(backups)[1].skill_count > 0

\* A step that calls Lockfile.update_entry.
UpdateEntryStep == pc = "idle" /\ last'.op = "update_entry" /\ now' = now

\* C13: update_entry upserts the record of the skill's name: updatedAt is
\* the current time; installedAt is the value the record had if the name
\* was there with one, else the current time; the entries of all other
\* names are unchanged.
C13_Upsert ==
    [][ UpdateEntryStep
        => LET old == run.lockfile
               new == run'.lockfile
               name == last'.skill
           IN  /\ DOMAIN new = DOMAIN old \cup {name}
               /\ new[name].updatedAt = IsoSeconds(now)
               /\ (name \in DOMAIN old /\ "installedAt" \in DOMAIN old[name])
                     => new[name].installedAt = old[name].installedAt
               /\ name \notin DOMAIN old
                     => new[name].installedAt = IsoSeconds(now)
               /\ \A other \in DOMAIN old \ {name} : new[other] = old[other] ]_vars

\* Witness of C13: a record installed at time 0 was updated at time 1 and
\* kept its installedAt, beside a record of another name.
C13_Witness ==
    /\ last.op = "update_entry" /\ last.skill = "a"
    /\ IsoSeconds(now) = 1
    /\ {"a", "b"} \subseteq DOMAIN run.lockfile
    /\ run.lockfile["a"].installedAt = 0
    /\ run.lockfile["a"].updatedAt = 1

----------------------------------------------------------------------------
\* The entries that carry both timestamps have them in order.
TimestampsOrdered(entries) ==
    \A n \in DOMAIN entries :
        {"installedAt", "updatedAt"} \subseteq DOMAIN entries[n]
            => entries[n].installedAt <= entries[n].updatedAt

\* C14: in every reachable state every record of the lockfile, in the file,
\* in memory during an update run and in the copy each snapshot keeps, has
\* installedAt <= updatedAt.
C14_InstalledBeforeUpdated ==
    /\ TimestampsOrdered(load_lockfile(lockdisk))
    /\ TimestampsOrdered(run.lockfile)
    /\ \A l \in DOMAIN backups.snaps :
          TimestampsOrdered(load_lockfile(backups.snaps[l].lockfile))

\* A record loaded from disk was updated at a later clock reading and saved.
C14_Witness ==
    /\ last.op = "update" /\ ~last.dry_run /\ "a" \in last.names
    /\ "a" \in DOMAIN load_lockfile(pre.lockdisk)
    /\ LET e == load_lockfile(lockdisk)["a"]
       IN  e.installedAt < e.updatedAt

----------------------------------------------------------------------------
\* The skill names of the persisted lockfile.
PersistedNames(doc) == DOMAIN load_lockfile(doc)

\* C15 as stated: no step of the program removes a skill name from the
\* persisted lockfile.
C15_NeverDeleted ==
    [][PersistedNames(lockdisk) \subseteq PersistedNames(lockdisk')]_vars

\* C15, amended: a step removes a skill name from the persisted lockfile only
\* if it is a rollback of all skills without dry run, and the lockfile then
\* holds the entries of the newest snapshot's lockfile copy; update runs, dry
\* runs and rollbacks of one skill keep every name.
C15_DeletedOnlyByRestoreAll ==
    [][ \/ PersistedNames(lockdisk) \subseteq PersistedNames(lockdisk')
        \/ /\ RestoreAllStep
           /\ list_backups(backups) # <<>>
           /\ load_lockfile(lockdisk') = load_lockfile(NewestSnapshot.lockfile) ]_vars

\* An update run recorded skill b, and the rollback of all skills that
\* followed removed b from the persisted lockfile.
C15_Witness ==
    /\ last.op = "rollback" /\ last.undo /\ ~last.dry_run /\ last.skill = NoSkill
    /\ "b" \in last.names
    /\ last.lockChanged
    /\ "b" \notin PersistedNames(lockdisk)

----------------------------------------------------------------------------
\* C16: save_lockfile is atomic.  The file at the lockfile path changes only
\* in the step that renames the fully written temporary file over it, and
\* then holds the complete new content, so a reader sees the previous content
\* or the new content at every point; after a failed save the temporary file
\* is gone, the lockfile file is as it was before the call, and the error was
\* raised (last.exit = 1).
C16_AtomicSave ==
    [][ /\ lockdisk' \in {lockdisk, save_lockfile(run.lockfile)}
        /\ lockdisk' # lockdisk
              => /\ pc = "save_full" /\ pc' = "idle"
                 /\ locktmp = save_lockfile(run.lockfile)
                 /\ locktmp' = MissingFile
                 /\ last'.op = "save" /\ last'.exit = 0
        /\ pc' \in {"save_tmp", "save_part", "save_full"}
              => lockdisk' = pre'.lockdisk
        /\ (last'.op = "save" /\ last'.exit = 1)
              => /\ pc' = "idle"
                 /\ locktmp' = MissingFile
                 /\ lockdisk' = pre'.lockdisk ]_vars

\* In the middle of a save the temporary file holds part of the new content
\* while the lockfile path still holds the complete previous content.
C16_Witness ==
    /\ pc = "save_part"
    /\ locktmp = Truncated(save_lockfile(run.lockfile))
    /\ lockdisk.kind = "json"
    /\ lockdisk = pre.lockdisk
    /\ lockdisk # save_lockfile(run.lockfile)

----------------------------------------------------------------------------
\* A step that calls load_lockfile on the lockfile file.
LoadStep == pc = "idle" /\ last'.op = "load" /\ UNCHANGED <<lockdisk, now>>

\* The round trip of C17 on the entries a load returned.
SavedAndLoaded(entries) == load_lockfile(save_lockfile(entries))

\* C17: load, save unmodified and load again gives the same entries, for
\* every lockfile file; and a load after save_lockfile(L) gives L's entries.
C17_RoundTrip ==
    [][ /\ LoadStep
           => /\ last'.exit = 0
              /\ SavedAndLoaded(run'.lockfile) = run'.lockfile
        /\ (pc = "save_full" /\ pc' = "idle" /\ last'.exit = 0)
           => load_lockfile(lockdisk') = run.lockfile ]_vars

\* An entry of the file that is a mapping of string fields.
ConformingEntry(entry) ==
    /\ entry.json = "object"
    /\ \A k \in DOMAIN entry.fields : entry.fields[k].json = "string"

\* The entries the rule of C18 gives for a lockfile file: none for a missing
\* or unparseable file or a wrong shape, else the conforming entries as they
\* are.
ConformingEntries(doc) ==
    IF doc.kind # "json" \/ doc.data.json # "object" THEN Empty
    ELSE LET entries == IF "skills" \in DOMAIN doc.data.fields
                        THEN doc.data.fields["skills"] ELSE doc.data
         IN  IF entries.json # "object" THEN Empty
             ELSE [n \in {m \in DOMAIN entries.fields :
                             ConformingEntry(entries.fields[m])} |->
                      [k \in DOMAIN entries.fields[n].fields |->
                          entries.fields[n].fields[k].v]]

\* C18: load_lockfile never raises, and the Lockfile it returns holds exactly
\* the conforming entries of the file, unchanged (none when the file is
\* missing, unparseable or of the wrong shape).
C18_LoadNeverFails ==
    [][ LoadStep
        => /\ last'.exit = 0
           /\ run'.lockfile = ConformingEntries(lockdisk) ]_vars

----------------------------------------------------------------------------
\* C19: the result of the finder of each structure is the one the reference
\* rule gives.  standard: skills/<name> if it is a directory, else
\* src/skills/<name> if it is a directory, else not found; root: the
\* repository root iff SKILL.md is a file there; template: template iff it
\* is a directory; multi: <name> iff it is a directory holding a file
\* SKILL.md.  A returned path is an existing directory, and holds the
\* manifest for root and multi.
C19_ResolverRule ==
    resolved.called =>
        LET files == resolved.files
            name == resolved.skill_name
            r == resolved.result
            manifest(p) == IsFile(files, p \o <<"SKILL.md">>)
        IN  /\ resolved.structure = "standard" =>
                /\ IsDir(files, <<"skills", name>>)
                      => r = Found(<<"skills", name>>)
                /\ (~IsDir(files, <<"skills", name>>)
                      /\ IsDir(files, <<"src", "skills", name>>))
                      => r = Found(<<"src", "skills", name>>)
                /\ (~IsDir(files, <<"skills", name>>)
                      /\ ~IsDir(files, <<"src", "skills", name>>))
                      => r = NotFound
            /\ resolved.structure = "root" =>
                /\ manifest(<<>>) => r = Found(<<>>)
                /\ ~manifest(<<>>) => r = NotFound
            /\ resolved.structure = "template" =>
                /\ IsDir(files, <<"template">>) => r = Found(<<"template">>)
                /\ ~IsDir(files, <<"template">>) => r = NotFound
            /\ resolved.structure = "multi" =>
                /\ (IsDir(files, <<name>>) /\ manifest(<<name>>))
                      => r = Found(<<name>>)
                /\ ~(IsDir(files, <<name>>) /\ manifest(<<name>>))
                      => r = NotFound
            /\ r.found => IsDir(files, r.path)
            /\ (r.found /\ resolved.structure \in {"root", "multi"})
                  => manifest(r.path)

\* The multi finder was asked for a directory that exists without a file
\* SKILL.md in it, and reported not found.
C19_Witness ==
    /\ resolved.called
    /\ resolved.structure = "multi"
    /\ IsDir(resolved.files, <<resolved.skill_name>>)
    /\ ~IsFile(resolved.files, <<resolved.skill_name, "SKILL.md">>)
    /\ resolved.result = NotFound

----------------------------------------------------------------------------
\* The fetched repositories from which install_skills takes skill s.
Providers(results, skill_filter, s) ==
    { j \in DOMAIN results :
        /\ results[j].success
        /\ InSeq(s, skills_to_install(results[j].repo, skill_filter))
        /\ FindSkillDir(results[j].repo.structure, results[j].files, s).found }

\* The InstalledSkill records of skill s.
RecordsOf(installed, s) == {k \in DOMAIN installed : installed[k].name = s}

\* C20: install_skills leaves a target root that does not exist as it is
\* (not created, nothing in it); and when only the first of the two roots
\* exists, a skill that one fetched repository offers and that gets copied
\* is then in the first root and has exactly one record.
C20_MissingRootSkipped ==
    [][ InstallStep
        => /\ \A i \in RootIdx : ~targets[i].exists => targets'[i] = targets[i]
           /\ (targets[1].exists /\ ~targets[2].exists /\ ~run.ctx.dry_run)
              => \A s \in Skills :
                    ( /\ Cardinality(Providers(run'.results, run.skill_filter, s)) = 1
                      /\ (s \notin DOMAIN targets[1].skills \/ run.ctx.force) )
                    => /\ s \in DOMAIN targets'[1].skills
                       /\ Cardinality(RecordsOf(run'.installed, s)) = 1 ]_vars

\* Only the first target root exists; skill b was missing there and has been
\* installed from the one repository fetched: one record, b under the first
\* root, the second root still missing.
C20_Witness ==
    /\ pc = "installed" /\ ~run.ctx.dry_run
    /\ pre.targets[1].exists /\ ~pre.targets[2].exists
    /\ "b" \notin DOMAIN pre.targets[1].skills
    /\ "b" \in DOMAIN targets[1].skills
    /\ targets[2] = NoRoot
    /\ Len(run.installed) = 1 /\ run.installed[1].name = "b"

----------------------------------------------------------------------------
\* Some existing target root takes a copy of skill s: s is missing there, or
\* force is given.
TakesCopy(tg, ctx, s) ==
    \E i \in RootIdx : tg[i].exists /\ (s \notin DOMAIN tg[i].skills \/ ctx.force)

\* C21 as stated: a skill has one record if some fetched repository offers it
\* and some target root takes it, none otherwise; never two.
C21_OneRecordPerSkill ==
    [][ InstallStep
        => \A s \in Skills :
              Cardinality(RecordsOf(run'.installed, s))
                  = IF Providers(run'.results, run.skill_filter, s) # {}
                       /\ TakesCopy(targets, run.ctx, s)
                    THEN 1 ELSE 0 ]_vars

\* C21, amended: install_skills returns one record per fetched repository
\* and skill whose copy counted in some target root.  A skill that no
\* repository resolves, or that no target root takes, has none; otherwise it
\* has one record for each repository offering it when force or dry run is
\* given (every copy counts), and one record, of the first such repository,
\* in a plain run (the later ones find it installed).  Each record names a
\* repository that offers the skill.
C21_RecordPerRepoAndSkill ==
    [][ InstallStep
        => \A s \in Skills :
              LET offering == Providers(run'.results, run.skill_filter, s)
                  records == RecordsOf(run'.installed, s)
              IN  /\ Cardinality(records)
                        = IF offering = {} \/ ~TakesCopy(targets, run.ctx, s) THEN 0
                          ELSE IF run.ctx.force \/ run.ctx.dry_run
                               THEN Cardinality(offering)
                          ELSE 1
                  /\ \A k \in records :
                        \E j \in offering :
                           /\ run'.installed[k].source = run'.results[j].repo.name
                           /\ (run.ctx.force \/ run.ctx.dry_run
                                  \/ \A o \in offering : j <= o) ]_vars

\* Two fetched repositories offer b and force is given: b has two records.
C21_Witness ==
    /\ pc = "installed" /\ run.ctx.force /\ ~run.ctx.dry_run
    /\ Cardinality(Providers(run.results, run.skill_filter, "b")) = 2
    /\ Cardinality(RecordsOf(run.installed, "b")) = 2

----------------------------------------------------------------------------
\* A step of an update run made without --dry-run.
RealUpdateStep ==
    \/ pc # "idle" /\ ~run.ctx.dry_run
    \/ pc = "idle" /\ pc' = "loaded" /\ ~run'.ctx.dry_run

\* C24: a non-dry-run update run loads the lockfile first, touching nothing
\* on disk; the backup step comes next and snapshots the target roots as
\* the run found them; target roots change only in the install step that
\* follows; the lockfile file changes only in the last step, which writes
\* the loaded entries with one update_entry per record install_skills
\* returned, so every loaded record the run did not install is written back
\* as it was loaded.
C24_UpdateOrder ==
    [][ RealUpdateStep
        => /\ pc = "idle"
              => /\ pc' = "loaded"
                 /\ run'.lockfile = load_lockfile(lockdisk)
                 /\ UNCHANGED <<targets, lockdisk, backups>>
           /\ pc = "loaded"
              => /\ pc' = "backed"
                 /\ targets = pre.targets /\ lockdisk = pre.lockdisk
                 /\ backups' = create_backup(backups, pre.targets, config,
                                             load_lockfile(pre.lockdisk), now)
                 /\ UNCHANGED <<targets, lockdisk>>
           /\ targets' # targets => (pc = "backed" /\ pc' = "installed")
           /\ pc = "backed" => UNCHANGED <<lockdisk, backups>>
           /\ lockdisk' # lockdisk => (pc = "installed" /\ pc' = "idle")
           /\ pc = "installed"
              => LET loaded == load_lockfile(pre.lockdisk)
                     saved == load_lockfile(lockdisk')
                     names == InstalledNames(run.installed)
                 IN  /\ pc' = "idle"
                     /\ UNCHANGED <<targets, backups>>
                     /\ DOMAIN saved = DOMAIN loaded \cup names
                     /\ \A n \in DOMAIN loaded \ names : saved[n] = loaded[n]
                     /\ \A n \in names :
                           /\ saved[n].source = LastRecord(run.installed, n).source
                           /\ saved[n].skillPath = LastRecord(run.installed, n).skill_path
                           /\ saved[n].updatedAt = IsoSeconds(now) ]_vars

\* A run without dry run has ended: it took a snapshot, changed a target
\* root and wrote a lockfile that holds a loaded record it did not install
\* beside the record of the skill it installed.
C24_Witness ==
    /\ last.op = "update" /\ ~last.dry_run
    /\ last.names = {"b"}
    /\ last.targetsChanged /\ last.lockChanged
    /\ backups # pre.backups
    /\ "a" \in DOMAIN load_lockfile(pre.lockdisk)
    /\ DOMAIN load_lockfile(lockdisk) = {"a", "b"}

----------------------------------------------------------------------------
\* The step of an update run in which create_backup takes a snapshot.
BackupStep ==
    /\ pc = "loaded" /\ pc' = "backed"
    /\ ~run.ctx.dry_run
    /\ run.lockfile # Empty

\* C25: the snapshot keeps the skill directories of each target root apart.
\* When both roots hold skill s at backup time, the snapshot then holds two
\* copies under two different root labels, each equal to the directory of
\* its own root; and a restore of all skills with no later snapshot puts
\* into each root the directory captured from that root.
C25_PerRootCopies ==
    [][ /\ BackupStep
           => \A s \in DOMAIN run.lockfile :
                 (\A i \in RootIdx : targets[i].exists /\ s \in DOMAIN targets[i].skills)
                 => LET snap == backups'.snaps[_timestamp_label(now)]
                    IN  /\ target_label(config.paths[1]) # target_label(config.paths[2])
                        /\ \A i \in RootIdx :
                              snap.trees[target_label(config.paths[i])][s]
                                  = targets[i].skills[s]
        /\ (RestoreAllStep /\ shot.set)
           => \A s \in Captured(1) \cap Captured(2) :
                 \A i \in RootIdx :
                    /\ s \in DOMAIN targets'[i].skills
                    /\ targets'[i].skills[s] = shot.targets[i].skills[s] ]_vars

\* C26: a create_backup call that takes a snapshot uses a label that no
\* snapshot directory in the backup root has yet.
C26_FreshLabel ==
    [][ BackupStep => _timestamp_label(now) \notin DOMAIN backups.snaps ]_vars

\* C29: a snapshot directory that a step leaves in the backup root is left
\* with the content it had; a step removes snapshot directories only with
\* labels below every label it leaves, and only in create_backup.
C29_SnapshotImmutable ==
    [][ /\ \A l \in DOMAIN backups.snaps \cap DOMAIN backups'.snaps :
              backups'.snaps[l] = backups.snaps[l]
        /\ \A l \in DOMAIN backups.snaps \ DOMAIN backups'.snaps :
              /\ BackupStep
              /\ \A k \in DOMAIN backups'.snaps : l < k ]_vars

----------------------------------------------------------------------------
\* C23 as stated: when the update run was given a skill filter, install_skills
\* records no skill that the filter does not hold, and no target root's
\* directory of such a skill changes.
C23_FilterRestricts ==
    [][ InstallStep /\ run.filter_given
        => \A s \in Skills :
              ~InSeq(s, run.skill_filter)
              => /\ RecordsOf(run'.installed, s) = {}
                 /\ \A i \in RootIdx : SameSkillDir(targets, targets', i, s) ]_vars

----------------------------------------------------------------------------
\* Target root i is one into which the copy of skill s goes through: it
\* exists, takes writes, and lacks s or force is given.
Accepts(tg, ctx, i, s) ==
    tg[i].exists /\ ~tg[i].denied /\ (s \notin DOMAIN tg[i].skills \/ ctx.force)

\* Target root i is one in which the copy of skill s is tried and refused.
Refuses(tg, ctx, i, s) ==
    tg[i].exists /\ tg[i].denied /\ (s \notin DOMAIN tg[i].skills \/ ctx.force)

\* C28: in an install step without dry run, a target root that refuses the
\* copy of a skill stays as it was and stops nothing: every resolved skill
\* still goes into every root that accepts it, whichever root comes first and
\* whichever skill or repository follows, and a skill is recorded iff it is
\* resolved and some root accepted its copy.
C28_CopyFailureContained ==
    [][ (InstallStep /\ ~run.ctx.dry_run)
        => \A s \in Skills :
              LET sources == ResolvedSources(run'.results, run.skill_filter, s)
              IN  /\ \A i \in RootIdx :
                        /\ targets[i].denied => targets'[i] = targets[i]
                        /\ (Accepts(targets, run.ctx, i, s) /\ sources # {})
                           => /\ s \in DOMAIN targets'[i].skills
                              /\ targets'[i].skills[s] \in sources
                  /\ (RecordsOf(run'.installed, s) # {})
                        <=> /\ sources # {}
                            /\ \E i \in RootIdx : Accepts(targets, run.ctx, i, s) ]_vars

\* Witness of C28: the first root refused the copy of b, the second root
\* took it, and b is recorded.
C28_Witness ==
    /\ pc = "installed" /\ ~run.ctx.dry_run
    /\ Refuses(pre.targets, run.ctx, 1, "b")
    /\ Accepts(pre.targets, run.ctx, 2, "b")
    /\ targets[1] = pre.targets[1]
    /\ "b" \in DOMAIN targets[2].skills
    /\ RecordsOf(run.installed, "b") # {}

----------------------------------------------------------------------------
\* A step that runs the list-backups command.
ListStep == ops' = ops + 1 /\ last'.op = "list-backups"

\* C27 as stated: list_backups does not fail whatever the backup-meta.json
\* files are; it lists every snapshot directory, and a snapshot whose
\* backup-meta.json is not the object create_backup writes is listed with the
\* directory name as timestamp, zero skills and an empty skill list.
C27_ListTolerant ==
    [][ ListStep
        => /\ ~last'.raised
           /\ Len(last'.listed) = Cardinality(DOMAIN backups.snaps)
           /\ \A k \in DOMAIN last'.listed :
                 LET info == last'.listed[k]
                 IN  backups.snaps[info.path].meta.kind # "json"
                     => /\ info.timestamp = info.path
                        /\ info.skill_count = 0
                        /\ info.skills = {} ]_vars

----------------------------------------------------------------------------
\* C30 as stated: when restore_backup returns, it returns True iff the newest
\* snapshot holds a skill directory matching the request for some configured
\* target root, and when it returns False no target root and not the
\* lockfile file has changed.
C30_ReturnMatchesEffect ==
    [][ (RollbackStep /\ ~last'.raised)
        => /\ last'.ret
                <=> /\ list_backups(backups) # <<>>
                    /\ restored_any(NewestSnapshot, config.paths, last'.skill)
           /\ ~last'.ret => (targets' = targets /\ lockdisk' = lockdisk) ]_vars

----------------------------------------------------------------------------
\* C22 as stated, for the failures that can happen here (target roots that
\* refuse writes, damaged backup-meta.json; the lockfile write succeeds): an
\* update run ends with exit status 0, and a rollback ends with a failure
\* only by restore_backup returning False for want of a snapshot holding
\* what was asked for, never by an exception.
C22_OnlyStatedFailures ==
    [][ /\ (pc = "installed" /\ pc' = "idle") => (last'.exit = 0 /\ ~last'.raised)
        /\ RollbackStep
             => /\ ~last'.raised
                /\ last'.exit # 0
                     => \/ list_backups(backups) = <<>>
                        \/ ~restored_any(NewestSnapshot, config.paths, last'.skill) ]_vars

====
